---- MODULE Spec2Model ----
(***************************************************************************)
(* The computation graph engine of reikna: the lifecycle of a Computation  *)
(* (reikna/core/computation.py), its basis negotiation, its plan           *)
(* finalization and its call binder, with the Dummy computation and the    *)
(* transformations of test/test_core/test_core.py as the concrete          *)
(* computation.  TransformationTree, the Value classes, OperationRecorder  *)
(* and cast live in modules the sources at hand do not hold; they are      *)
(* modelled from the specification's description of their contracts.       *)
(***************************************************************************)
EXTENDS Integers, Sequences, FiniteSets, TLC

VARIABLES
    state,           \* self._state
    debug,           \* self._debug
    prefix,          \* self._prefix
    contract,        \* the class of the computation: the hooks it supplies
    nested_counter,  \* self._nested_counter
    nested,          \* the prefixes handed to nested computations, in order
    tr_tree,         \* self._tr_tree
    basis,           \* self._basis
    operations,      \* self._operations
    kernels,         \* self._kernels
    arrays_list,     \* self._arrays_list
    leaf_sig,        \* self._leaf_signature
    casts,           \* self._casts
    last,            \* the outcome of the latest operation, as its caller sees it
    reduce,          \* the Reduce object and device a plan is built for
    build_pc,        \* Reduce._build_plan: where its control is
    part_size,       \* Reduce._build_plan: part_size
    cur_input,       \* Reduce._build_plan: cur_input
    input_slices,    \* Reduce._build_plan: input_slices
    plan             \* Reduce._build_plan: the calls recorded in plan

\* the variables of Reduce._build_plan
reduce_vars == <<reduce, build_pc, part_size, cur_input, input_slices, plan>>

vars == <<state, debug, prefix, contract, nested_counter, nested, tr_tree, basis,
          operations, kernels, arrays_list, leaf_sig, casts, last, reduce_vars>>

(***************************************************************************)
(* Lifecycle constants.                                                    *)
(***************************************************************************)
STATE_NOT_INITIALIZED == 0
STATE_INITIALIZED == 1
STATE_PREPARED == 2

(***************************************************************************)
(* Bounds of the model.                                                    *)
(***************************************************************************)
\* get_nested_computation is followed up to this many times
MaxNested == 1
\* the prefixes a computation is constructed with: an outermost one and a nested one
Prefixes == {"", "D1_"}
\* the classes get_nested_computation is asked for
NestedClasses == {"Dummy"}
\* element types and array sizes the caller's arguments are drawn from
RefDType == "float32"
AltDType == "int32"
Sizes == {1, 2}
RefSize == CHOOSE n \in Sizes : \A m \in Sizes : n <= m

(***************************************************************************)
(* Value model: ArrayValue(shape, dtype) and ScalarValue(dtype).  None is  *)
(* an unresolved field; an unresolved shape is the empty tuple.            *)
(***************************************************************************)
None == "None"
NoShape == <<>>

ArrayValue(shape, dtype) == [is_array |-> TRUE, shape |-> shape, dtype |-> dtype]

ScalarValue(dtype) == [is_array |-> FALSE, shape |-> NoShape, dtype |-> dtype]

\* Runtime arguments: None, an array-like (shape, dtype) or a scalar (dtype)
NoneArg == [kind |-> "none", shape |-> NoShape, dtype |-> None]

ArrayArg(n, dtype) == [kind |-> "array", shape |-> <<n>>, dtype |-> dtype]

ScalarArg(dtype) == [kind |-> "scalar", shape |-> NoShape, dtype |-> dtype]

\* wrap_value: the Value of a witnessed runtime array or scalar
wrap_value(arg) ==
    IF arg.kind = "array" THEN ArrayValue(arg.shape, arg.dtype)
    ELSE ScalarValue(arg.dtype)

\* cast(dtype): converts the element type, keeps everything else
cast(dtype, arg) ==
    IF arg.kind = "none" THEN arg ELSE [arg EXCEPT !.dtype = dtype]

Range(s) == {s[i] : i \in 1..Len(s)}

(***************************************************************************)
(* Transformations of the tests: arity and derivation.                     *)
(***************************************************************************)
tr_trivial == [name |-> "tr_trivial", inputs |-> 1, outputs |-> 1, scalars |-> 0]

tr_scale == [name |-> "tr_scale", inputs |-> 1, outputs |-> 1, scalars |-> 1]

tr_2_to_1 == [name |-> "tr_2_to_1", inputs |-> 2, outputs |-> 1, scalars |-> 1]

tr_1_to_2 == [name |-> "tr_1_to_2", inputs |-> 1, outputs |-> 2, scalars |-> 0]

Transformations == {tr_trivial, tr_scale}

\* derive_o_from_is / derive_i_from_os of both: the first array's Value
Derive(tr, child_values) == child_values[1]

(***************************************************************************)
(* Transformation tree.                                                    *)
(***************************************************************************)
Node(type) ==
    [type |-> type, connected |-> FALSE, children |-> <<>>, tr |-> "",
     value |-> IF type = "scalar" THEN ScalarValue(None)
               ELSE ArrayValue(NoShape, None)]

NoTree == [base_names |-> <<>>, nodes |-> <<>>]

TransformationTree(outputs, inputs, scalars) ==
    [base_names |-> outputs \o inputs \o scalars,
     nodes |-> [n \in Range(outputs) |-> Node("output")]
               @@ [n \in Range(inputs) |-> Node("input")]
               @@ [n \in Range(scalars) |-> Node("scalar")]]

RECURSIVE SubtreeLeaves(_, _, _)
\* the leaves under the nodes `names`, depth first, each name once
SubtreeLeaves(nodes, names, visited) ==
    IF names = <<>> THEN <<>>
    ELSE LET n == Head(names) IN
         IF n \in visited THEN SubtreeLeaves(nodes, Tail(names), visited)
         ELSE IF nodes[n].connected
              THEN SubtreeLeaves(nodes, nodes[n].children \o Tail(names),
                                 visited \cup {n})
              ELSE <<n>> \o SubtreeLeaves(nodes, Tail(names), visited \cup {n})

\* (mutant) the leaves as the walk meets them, scalars among the arrays
LeafNamesAsMet(tree) == SubtreeLeaves(tree.nodes, tree.base_names, {})

\* the leaf names in call order: arrays in base order, each fused parameter
\* replaced in place by its leaves; then the base scalars, then the scalars
\* the transformations brought
LeafNames(tree) ==
    LET all == SubtreeLeaves(tree.nodes, tree.base_names, {})
        is_arr(n) == tree.nodes[n].type # "scalar"
        base_sc == SelectSeq(tree.base_names,
                       LAMBDA n : ~is_arr(n) /\ ~tree.nodes[n].connected)
    IN  SelectSeq(all, is_arr)
        \o base_sc
        \o SelectSeq(all, LAMBDA n : ~is_arr(n) /\ n \notin Range(base_sc))

tree_leaf_signature(tree) ==
    LET names == LeafNames(tree)
    IN  [i \in 1..Len(names) |->
            [name |-> names[i], value |-> tree.nodes[names[i]].value]]

Digits == {"0", "1", "2", "3", "4", "5", "6", "7", "8", "9"}

\* a parameter name is an identifier: it does not start with a digit
valid_argument_name(name) == Len(name) > 0 /\ SubSeq(name, 1, 1) \notin Digits

\* (mutant) a fused parameter still takes a transformation
ConnectFaultLeafUnchecked(tree, tr, array_arg, new_array_args, new_scalar_args) ==
    LET nodes == tree.nodes
        known == DOMAIN nodes
    IN  IF array_arg \notin known THEN "no_such_node"
        ELSE IF nodes[array_arg].type = "scalar" THEN "scalar_target"
        ELSE IF \E n \in Range(new_array_args \o new_scalar_args) :
                    ~valid_argument_name(n)
             THEN "invalid_name"
        ELSE IF Len(new_scalar_args) # tr.scalars THEN "arity"
        ELSE IF nodes[array_arg].type = "output"
                /\ (tr.inputs # 1 \/ Len(new_array_args) # tr.outputs)
             THEN "arity"
        ELSE IF nodes[array_arg].type = "input"
                /\ (tr.outputs # 1 \/ Len(new_array_args) # tr.inputs)
             THEN "arity"
        ELSE IF nodes[array_arg].type = "output"
                /\ \E n \in Range(new_array_args) : n \in known
             THEN "existing_node"
        ELSE IF \E n \in Range(new_array_args) :
                    n \in known /\ nodes[n].type # "input"
             THEN "wrong_kind"
        ELSE IF \E n \in Range(new_scalar_args) :
                    n \in known /\ nodes[n].type # "scalar"
             THEN "wrong_kind"
        ELSE ""

\* (mutant) every new name must be new to the tree
ConnectFaultNoAlias(tree, tr, array_arg, new_array_args, new_scalar_args) ==
    LET nodes == tree.nodes
        known == DOMAIN nodes
    IN  IF array_arg \notin known THEN "no_such_node"
        ELSE IF nodes[array_arg].type = "scalar" THEN "scalar_target"
        ELSE IF nodes[array_arg].connected THEN "not_a_leaf"
        ELSE IF \E n \in Range(new_array_args \o new_scalar_args) :
                    ~valid_argument_name(n)
             THEN "invalid_name"
        ELSE IF Len(new_scalar_args) # tr.scalars THEN "arity"
        ELSE IF nodes[array_arg].type = "output"
                /\ (tr.inputs # 1 \/ Len(new_array_args) # tr.outputs)
             THEN "arity"
        ELSE IF nodes[array_arg].type = "input"
                /\ (tr.outputs # 1 \/ Len(new_array_args) # tr.inputs)
             THEN "arity"
        ELSE IF \E n \in Range(new_array_args \o new_scalar_args) : n \in known
             THEN "existing_node"
        ELSE ""

\* TransformationTree.connect: what it refuses a request for, "" if nothing.
\* The target must be a leaf array parameter; the new names identifiers, as
\* many as the transformation has parameters on that side; a new name may be
\* one the tree has only as an input array (at an input target) or a scalar.
ConnectFault(tree, tr, array_arg, new_array_args, new_scalar_args) ==
    LET nodes == tree.nodes
        known == DOMAIN nodes
    IN  IF array_arg \notin known THEN "no_such_node"
        ELSE IF nodes[array_arg].type = "scalar" THEN "scalar_target"
        ELSE IF nodes[array_arg].connected THEN "not_a_leaf"
        ELSE IF \E n \in Range(new_array_args \o new_scalar_args) :
                    ~valid_argument_name(n)
             THEN "invalid_name"
        ELSE IF Len(new_scalar_args) # tr.scalars THEN "arity"
        ELSE IF nodes[array_arg].type = "output"
                /\ (tr.inputs # 1 \/ Len(new_array_args) # tr.outputs)
             THEN "arity"
        ELSE IF nodes[array_arg].type = "input"
                /\ (tr.outputs # 1 \/ Len(new_array_args) # tr.inputs)
             THEN "arity"
        ELSE IF nodes[array_arg].type = "output"
                /\ \E n \in Range(new_array_args) : n \in known
             THEN "existing_node"
        ELSE IF \E n \in Range(new_array_args) :
                    n \in known /\ nodes[n].type # "input"
             THEN "wrong_kind"
        ELSE IF \E n \in Range(new_scalar_args) :
                    n \in known /\ nodes[n].type # "scalar"
             THEN "wrong_kind"
        ELSE ""

\* TransformationTree.connect: "ok" or the error it raises
ConnectError(tree, tr, array_arg, new_array_args, new_scalar_args) ==
    IF ConnectFault(tree, tr, array_arg, new_array_args, new_scalar_args) = ""
    THEN "ok" ELSE "ValueError"

tree_connect(tree, tr, array_arg, new_array_args, new_scalar_args) ==
    LET nodes == tree.nodes
        fresh_a == Range(new_array_args) \ DOMAIN nodes
        fresh_s == Range(new_scalar_args) \ DOMAIN nodes
        target == [nodes[array_arg] EXCEPT
                      !.connected = TRUE,
                      !.children = new_array_args \o new_scalar_args,
                      !.tr = tr.name]
    IN  [tree EXCEPT !.nodes =
            (array_arg :> target)
            @@ nodes
            @@ [n \in fresh_a |-> Node(nodes[array_arg].type)]
            @@ [n \in fresh_s |-> Node("scalar")]]

RECURSIVE NodeValue(_, _, _, _)
\* the Value a propagation gives node n: a leaf takes the caller's Value,
\* a fused node the Value its transformation derives from its children
NodeValue(nodes, values, n, visiting) ==
    IF n \in visiting THEN nodes[n].value
    ELSE IF ~nodes[n].connected
         THEN IF n \in DOMAIN values THEN values[n] ELSE nodes[n].value
         ELSE LET ch == nodes[n].children
              IN  Derive(nodes[n].tr,
                      [i \in 1..Len(ch) |->
                          NodeValue(nodes, values, ch[i], visiting \cup {n})])

\* (the comparison makes TLC build the function once instead of at each use)
Built(f) == IF f = <<>> THEN f ELSE f

propagate_to_base(tree, values) ==
    [tree EXCEPT !.nodes = Built(
        [n \in DOMAIN tree.nodes |->
            [tree.nodes[n] EXCEPT !.value = NodeValue(tree.nodes, values, n, {})]])]

base_values(tree) ==
    [i \in 1..Len(tree.base_names) |-> tree.nodes[tree.base_names[i]].value]

(***************************************************************************)
(* The hooks a concrete computation supplies.  Dummy and DummyNested are   *)
(* the classes of the tests.  FixedCoeff and Promoting stand for the       *)
(* computations lines 160-166 speak of: they have Dummy's parameters,      *)
(* basis and plan, but their argument-Value function decides the type of   *)
(* the scalar itself: one fixes it, the other widens the type it is given. *)
(***************************************************************************)
Contracts == {"Dummy", "DummyNested", "FixedCoeff", "Promoting"}

Outputs == <<"C", "D">>
Inputs == <<"A", "B">>
Scalars == <<"coeff">>

_get_argnames == <<Outputs, Inputs, Scalars>>

NoBasis == [set |-> FALSE, arr_dtype |-> None, coeff_dtype |-> None, size |-> NoShape]

\* the keys of a basis: DummyNested adds fixed_coeff (<<>> for Python's None)
BasisKeys ==
    {"arr_dtype", "coeff_dtype", "size"}
    \cup (IF contract = "DummyNested" THEN {"fixed_coeff"} ELSE {})

\* the keywords _get_basis_for declares
AcceptedKwds == IF contract = "DummyNested" THEN {"fixed_coeff"} ELSE {}

\* _get_basis_for(C, D, A, B, coeff): an undeclared keyword is a TypeError
\* of the call; the four arrays are asserted to have one element type
_get_basis_for(bv, kwds) ==
    IF kwds \ AcceptedKwds # {} THEN [err |-> "TypeError", basis |-> NoBasis]
    ELSE IF ~(bv[1].dtype = bv[2].dtype /\ bv[2].dtype = bv[3].dtype
              /\ bv[3].dtype = bv[4].dtype)
         THEN [err |-> "AssertionError", basis |-> NoBasis]
    ELSE LET b == [set |-> TRUE, arr_dtype |-> bv[1].dtype,
                   coeff_dtype |-> bv[5].dtype, size |-> bv[1].shape]
         IN  [err |-> "ok",
              basis |-> IF contract = "DummyNested"
                        THEN b @@
                             [k \in {"fixed_coeff"} |->
                                 IF "fixed_coeff" \in kwds THEN <<bv[5]>> ELSE <<>>]
                        ELSE b]

WideDType == "float64"

\* the type a Promoting computation runs its scalar in
Promote(dtype) ==
    IF dtype = AltDType THEN RefDType
    ELSE IF dtype = RefDType THEN WideDType
    ELSE dtype

\* _get_argvalues(basis), keyed by the declared (unprefixed) names
_get_argvalues(b) ==
    LET av == ArrayValue(b.size, b.arr_dtype)
        sv == IF contract = "FixedCoeff" THEN ScalarValue(RefDType)
              ELSE IF contract = "Promoting" THEN ScalarValue(Promote(b.coeff_dtype))
              ELSE ScalarValue(b.coeff_dtype)
    IN  [n \in Range(Outputs) \cup Range(Inputs) |-> av]
        @@ [n \in Range(Scalars) |-> sv]

Absent == [set |-> FALSE, v |-> <<>>]

Present(v) == [set |-> TRUE, v |-> v]

\* the names of the two temporaries of Dummy's plan, in sorted order
TempNames(pfx) == <<pfx \o "_temp0", pfx \o "_temp1">>

\* lines 102-109: the prefix of a nested computation
Initial(cls) ==
    IF cls \in {"Dummy", "DummyNested"} THEN "D"
    ELSE IF cls = "Reduce" THEN "R"
    ELSE "C"

\* (mutant) the counter is left out of the prefix
NestedPrefixOfClass(pfx, cls, counter) == pfx \o Initial(cls) \o "_"

NestedPrefix(pfx, cls, counter) == pfx \o Initial(cls) \o ToString(counter) \o "_"

\* Dummy._construct_operations: two allocations and two kernels
DummyOperations(pfx, size, arr_dtype) ==
    LET t == TempNames(pfx)
        arg(n) == pfx \o n
    IN  [finalized |-> FALSE,
         finalize_calls |-> 0,
         kernels |-> <<
            [name |-> "dummy",
             argnames |-> <<t[1], t[2], arg("A"), arg("B"), arg("coeff")>>,
             argnames_indices |-> <<>>],
            [name |-> "dummy2",
             argnames |-> <<arg("C"), arg("D"), t[1], t[2]>>,
             argnames_indices |-> <<>>] >>,
         allocations |-> [i \in 1..2 |->
            [name |-> t[i], shape |-> size, dtype |-> arr_dtype]]]

\* DummyNested._construct_operations: the plan of a nested Dummy, inlined by
\* add_computation(nested, 'D', 'C', 'B', 'A', coeff) with its parameters
\* renamed to what the parent passes; a coeff passed by value is no argument
NestedOperations(pfx, b) ==
    LET np == NestedPrefix(pfx, "Dummy", nested_counter)
        inner == DummyOperations(np, b.size, b.arr_dtype)
        ren == (np \o "C" :> pfx \o "D") @@ (np \o "D" :> pfx \o "C")
               @@ (np \o "A" :> pfx \o "B") @@ (np \o "B" :> pfx \o "A")
               @@ (np \o "coeff" :> pfx \o "coeff")
        passed(names) ==
            LET r == [i \in 1..Len(names) |->
                        IF names[i] \in DOMAIN ren THEN ren[names[i]] ELSE names[i]]
            IN  IF b.fixed_coeff = <<>> THEN r
                ELSE SelectSeq(r, LAMBDA n : n # pfx \o "coeff")
    IN  [inner EXCEPT !.kernels =
            [i \in 1..Len(inner.kernels) |->
                [inner.kernels[i] EXCEPT !.argnames = passed(@)]]]

\* _construct_operations of the computation's class; sizing the allocations
\* and the grid needs a resolved size
_construct_operations(pfx, b) ==
    IF b.size = NoShape THEN [err |-> "TypeError", ops |-> Absent]
    ELSE [err |-> "ok",
          ops |-> Present(IF contract = "DummyNested"
                          THEN NestedOperations(pfx, b)
                          ELSE DummyOperations(pfx, b.size, b.arr_dtype))]

\* the nested computation the plan construction of DummyNested asks for
NestedByConstruction ==
    IF contract = "DummyNested"
    THEN /\ nested' = Append(nested, NestedPrefix(prefix, "Dummy", nested_counter))
         /\ nested_counter' = nested_counter + 1
    ELSE UNCHANGED <<nested_counter, nested>>

RECURSIVE FlattenNames(_, _)
\* the leaf-level names a kernel sees for its base-level argument names
FlattenNames(tree, names) ==
    IF names = <<>> THEN <<>>
    ELSE (IF Head(names) \in DOMAIN tree.nodes
          THEN SubtreeLeaves(tree.nodes, <<Head(names)>>, {})
          ELSE <<Head(names)>>)
         \o FlattenNames(tree, Tail(names))

\* OperationRecorder.finalize, with the recorder's copy of the tree: every
\* kernel's argument names become the names of the leaves and of the
\* allocated buffers
finalize(ops, tree) ==
    [ops EXCEPT !.finalized = TRUE,
                !.finalize_calls = @ + 1,
                !.kernels = [i \in 1..Len(ops.kernels) |->
                    [ops.kernels[i] EXCEPT
                        !.argnames = FlattenNames(tree, ops.kernels[i].argnames)]]]

(***************************************************************************)
(* Computation._basis_for: the two-pass negotiation.  It returns the error *)
(* raised (or "ok"), the step that raised it, the tree as the call leaves  *)
(* it, the Values wrapped from the arguments, the Values used in pass 2,   *)
(* and the basis of each pass.                                             *)
(***************************************************************************)
\* (mutant) None always becomes an array placeholder
WrapArgAsArray(pair, arg) ==
    IF arg.kind = "none" THEN ArrayValue(NoShape, None) ELSE wrap_value(arg)

\* lines 140-151: the Value of each argument, or the first position whose
\* kind is wrong (0 when there is none)
WrapArg(pair, arg) ==
    IF arg.kind = "none"
    THEN IF pair.value.is_array THEN ArrayValue(NoShape, None) ELSE ScalarValue(None)
    ELSE wrap_value(arg)

KindMismatch(pair, arg) ==
    arg.kind # "none" /\ wrap_value(arg).is_array # pair.value.is_array

FirstMismatch(pairs, args) ==
    LET bad == {i \in 1..Len(pairs) : KindMismatch(pairs[i], args[i])}
    IN  IF bad = {} THEN 0 ELSE CHOOSE i \in bad : \A j \in bad : i <= j

WrappedValues(pairs, args) ==
    [n \in {pairs[i].name : i \in 1..Len(pairs)} |->
        LET i == CHOOSE j \in 1..Len(pairs) : pairs[j].name = n
        IN  WrapArg(pairs[i], args[i])]

\* lines 167-169: the scalar Values of the computation override the caller's
ScalarOverride(values, bvalues) ==
    [n \in {m \in DOMAIN bvalues : ~bvalues[m].is_array} |-> bvalues[n]] @@ values

NoValues == <<>>

BasisFailure(err, at, tree, values) ==
    [err |-> err, at |-> at, tree |-> tree, values |-> values,
     values2 |-> NoValues, basis1 |-> NoBasis, basis |-> NoBasis]

\* (mutant) surplus arguments are let through
CountAtLeast(args, pairs) == Len(args) >= Len(pairs)

\* lines 134 and 271
CountMatches(args, pairs) == Len(args) = Len(pairs)

\* (mutant) the basis of the first pass is returned
_basis_for_one_pass(tree, args, kwds) ==
    LET pairs == tree_leaf_signature(tree) IN
    IF ~CountMatches(args, pairs)
    THEN BasisFailure("TypeError", "count", tree, NoValues)
    ELSE IF FirstMismatch(pairs, args) # 0
    THEN BasisFailure("TypeError", "kind", tree, NoValues)
    ELSE
    LET values == WrappedValues(pairs, args)
        tree1 == propagate_to_base(tree, values)
        b1 == _get_basis_for(base_values(tree1), kwds)
    IN  IF b1.err # "ok" THEN BasisFailure(b1.err, "basis", tree1, values)
        ELSE
        LET values2 == ScalarOverride(values, _get_argvalues(b1.basis))
            tree2 == propagate_to_base(tree1, values2)
        IN  [err |-> "ok", at |-> "",
             tree |-> tree2, values |-> values, values2 |-> values2,
             basis1 |-> b1.basis, basis |-> b1.basis]

_basis_for(tree, args, kwds) ==
    LET pairs == tree_leaf_signature(tree) IN
    IF ~CountMatches(args, pairs)
    THEN BasisFailure("TypeError", "count", tree, NoValues)
    ELSE IF FirstMismatch(pairs, args) # 0
    THEN BasisFailure("TypeError", "kind", tree, NoValues)
    ELSE
    LET values == WrappedValues(pairs, args)
        tree1 == propagate_to_base(tree, values)
        b1 == _get_basis_for(base_values(tree1), kwds)
    IN  IF b1.err # "ok" THEN BasisFailure(b1.err, "basis", tree1, values)
        ELSE
        LET values2 == ScalarOverride(values, _get_argvalues(b1.basis))
            tree2 == propagate_to_base(tree1, values2)
            b2 == _get_basis_for(base_values(tree2), kwds)
        IN  [err |-> b2.err,
             at |-> IF b2.err = "ok" THEN "" ELSE "basis",
             tree |-> tree2, values |-> values, values2 |-> values2,
             basis1 |-> b1.basis, basis |-> b2.basis]

\* lines 119-127
_basis_needs_update(cur, new_basis) ==
    \E key \in BasisKeys : cur[key] # new_basis[key]

(***************************************************************************)
(* What the caller of an operation observes.                               *)
(***************************************************************************)
\* nargs, kwds: the number of positional arguments and the keywords given;
\* args: the arguments, once the operation has passed its lifecycle check;
\* values: the Values wrapped from them; new_basis: the basis derived from
\* them; launched: the launches issued
Outcome(op, err, at, nargs, kwds, args, values, new_basis, launched) ==
    [op |-> op, err |-> err, at |-> at, nargs |-> nargs, kwds |-> kwds,
     args |-> args, values |-> values, new_basis |-> new_basis,
     launched |-> launched]

Plain(op, err, at) == Outcome(op, err, at, 0, {}, <<>>, NoValues, NoBasis, <<>>)

(***************************************************************************)
(* Reduce (reduce.py): the plan _build_plan records for an input whose     *)
(* reduced axes hold `part` elements, on a device with the given maximal   *)
(* work group size.                                                        *)
(***************************************************************************)
\* helpers.min_blocks: the least number of blocks of length block that cover
\* length elements
min_blocks(length, block) == (length - 1) \div block + 1

RECURSIVE PowerOf2From(_, _)
PowerOf2From(p, num) == IF p >= num THEN p ELSE PowerOf2From(2 * p, num)

\* helpers.bounding_power_of_2: the least power of 2 that is at least num
bounding_power_of_2(num) == PowerOf2From(1, num)

\* no Reduce plan is being built
NoReduce == [transpose |-> FALSE, outer_dims |-> 0, final_size |-> 0, part |-> 0,
             max_work_group_size |-> 0]

NoPlanBuilt ==
    /\ reduce = NoReduce
    /\ build_pc = "idle"
    /\ part_size = 0
    /\ cur_input = ""
    /\ input_slices = <<0, 0>>
    /\ plan = <<>>

\* plan.temp_array: a new temporary, named by the number of calls recorded
TempArray(calls) == "temp" \o ToString(Len(calls) + 1)

\* (mutant) a stage of blocks of one element
StageOfUnitBlocks(size, max_reduce_power) ==
    LET to_output == size < max_reduce_power
        block_size == 1
        blocks_per_part == IF to_output THEN 1 ELSE min_blocks(size, block_size)
    IN  [block_size |-> block_size,
         blocks_per_part |-> blocks_per_part,
         to_output |-> to_output,
         last_block_size |-> IF size % block_size # 0 THEN size % block_size
                             ELSE block_size]

\* lines 121-136: the block decomposition of one stage
Stage(size, max_reduce_power) ==
    LET to_output == size < max_reduce_power
        block_size == IF to_output THEN bounding_power_of_2(size)
                      ELSE max_reduce_power
        blocks_per_part == IF to_output THEN 1 ELSE min_blocks(size, block_size)
    IN  [block_size |-> block_size,
         blocks_per_part |-> blocks_per_part,
         to_output |-> to_output,
         last_block_size |-> IF size % block_size # 0 THEN size % block_size
                             ELSE block_size]

\* lines 94-117: the plan is created; an input whose reduced axes are not
\* the last ones is transposed into a temporary first
BuildPlanEnter ==
    /\ build_pc = "enter"
    /\ IF reduce.transpose
       THEN /\ plan' = <<[call |-> "transpose", output |-> TempArray(plan),
                           input |-> "input"]>>
            /\ cur_input' = TempArray(plan)
       ELSE /\ plan' = <<>>
            /\ cur_input' = "input"
    /\ input_slices' = <<reduce.outer_dims, 1>>
    /\ part_size' = reduce.part
    /\ build_pc' = "loop"
    /\ UNCHANGED <<state, debug, prefix, contract, nested_counter, nested, tr_tree,
                   basis, operations, kernels, arrays_list, leaf_sig, casts, last,
                   reduce>>

\* lines 119-156: one iteration of the loop
BuildPlanStage ==
    /\ build_pc = "loop"
    /\ part_size > 1
    /\ \E st \in {Stage(part_size, reduce.max_work_group_size)} :
       LET cur_output == IF st.to_output THEN "output" ELSE TempArray(plan)
           output_slices == IF st.to_output
                            THEN <<IF reduce.outer_dims = 0 THEN 1
                                   ELSE reduce.outer_dims, 0>>
                            ELSE <<1, 1>>
       IN  /\ plan' = Append(plan,
                  [call |-> "reduce", output |-> cur_output, input |-> cur_input,
                   part_size |-> part_size,
                   block_size |-> st.block_size,
                   blocks_per_part |-> st.blocks_per_part,
                   last_block_size |-> st.last_block_size,
                   input_slices |-> input_slices,
                   output_slices |-> output_slices,
                   global_size |-> <<reduce.final_size,
                                     st.blocks_per_part * st.block_size>>,
                   local_size |-> <<1, st.block_size>>])
           /\ part_size' = st.blocks_per_part
           /\ cur_input' = cur_output
           /\ input_slices' = output_slices
    /\ UNCHANGED <<state, debug, prefix, contract, nested_counter, nested, tr_tree,
                   basis, operations, kernels, arrays_list, leaf_sig, casts, last,
                   reduce, build_pc>>

\* lines 119 and 158: the loop ends and the plan is returned
BuildPlanReturn ==
    /\ build_pc = "loop"
    /\ ~(part_size > 1)
    /\ build_pc' = "returned"
    /\ UNCHANGED <<state, debug, prefix, contract, nested_counter, nested, tr_tree,
                   basis, operations, kernels, arrays_list, leaf_sig, casts, last,
                   reduce, part_size, cur_input, input_slices, plan>>

(***************************************************************************)
(* Construction: Computation.__init__ (lines 77-87).  A class with a fixed *)
(* argument list is initialized at once, one without waits for             *)
(* _set_argnames.                                                          *)
(***************************************************************************)
Prefixed(pfx, names) == [i \in 1..Len(names) |-> pfx \o names[i]]

\* (mutant) the inputs are declared to the tree before the outputs
_finish_init_inputs_first(pfx, argnames) ==
    TransformationTree(Prefixed(pfx, argnames[2]), Prefixed(pfx, argnames[1]),
                       Prefixed(pfx, argnames[3]))

_finish_init(pfx, argnames) ==
    TransformationTree(Prefixed(pfx, argnames[1]), Prefixed(pfx, argnames[2]),
                       Prefixed(pfx, argnames[3]))

Init ==
    /\ debug \in BOOLEAN
    /\ prefix \in Prefixes
    /\ contract = "Dummy"
    /\ nested_counter = 1
    /\ nested = <<>>
    /\ \/ /\ state = STATE_NOT_INITIALIZED
          /\ tr_tree = NoTree
       \/ /\ state = STATE_INITIALIZED
          /\ tr_tree = _finish_init(prefix, _get_argnames)
    /\ basis = NoBasis
    /\ operations = Absent
    /\ kernels = Absent
    /\ arrays_list = Absent
    /\ leaf_sig = Absent
    /\ casts = Absent
    /\ last = Plain("init", "ok", "")
    /\ NoPlanBuilt

\* (mutant) argument names are set again
ArgnamesSettableAlways(st) == TRUE

\* line 96: argument names are set once
ArgnamesSettable(st) == st = STATE_NOT_INITIALIZED

\* lines 95-100
SetArgnames ==
    /\ IF ~ArgnamesSettable(state)
       THEN /\ last' = Plain("_set_argnames", "InvalidStateError", "state")
            /\ UNCHANGED <<state, tr_tree>>
       ELSE /\ tr_tree' = _finish_init(prefix, <<Outputs, Inputs, Scalars>>)
            /\ state' = STATE_INITIALIZED
            /\ last' = Plain("_set_argnames", "ok", "")
    /\ UNCHANGED <<debug, prefix, contract, reduce_vars, nested_counter, nested, basis, operations,
                   kernels, arrays_list, leaf_sig, casts>>

\* lines 102-109
get_nested_computation(cls) ==
    /\ nested' = Append(nested, NestedPrefix(prefix, cls, nested_counter))
    /\ nested_counter' = nested_counter + 1
    /\ last' = Plain("get_nested_computation", "ok", "")
    /\ UNCHANGED <<state, debug, prefix, contract, reduce_vars, tr_tree, basis, operations, kernels,
                   arrays_list, leaf_sig, casts>>

GetNestedComputation(cls) == nested_counter <= MaxNested /\ get_nested_computation(cls)

\* (mutant) a prepared computation still takes connections
ConnectableOnceInitialized(st) == st # STATE_NOT_INITIALIZED

\* line 187
Connectable(st) == st = STATE_INITIALIZED

\* lines 178-193
Connect(tr, array_arg, new_array_args, new_scalar_args) ==
    /\ IF ~Connectable(state)
       THEN /\ last' = Plain("connect", "InvalidStateError", "state")
            /\ UNCHANGED tr_tree
       ELSE \E e \in {ConnectError(tr_tree, tr, array_arg, new_array_args,
                                     new_scalar_args)} :
                IF e # "ok"
                THEN /\ last' = Plain("connect", e,
                                      ConnectFault(tr_tree, tr, array_arg,
                                                   new_array_args, new_scalar_args))
                     /\ UNCHANGED tr_tree
                ELSE /\ tr_tree' = tree_connect(tr_tree, tr, array_arg,
                                                new_array_args, new_scalar_args)
                     /\ last' = Plain("connect", "ok", "")
    /\ UNCHANGED <<state, debug, prefix, contract, reduce_vars, nested_counter, nested, basis,
                   operations, kernels, arrays_list, leaf_sig, casts>>

(***************************************************************************)
(* prepare_for (lines 195-234).                                            *)
(***************************************************************************)
\* (mutant) the buffers are numbered from 0, like the runtime arguments
array_to_int_from_zero(sig, arr_names, name) ==
    IF \E i \in 1..Len(sig) : sig[i].name = name
    THEN (CHOOSE i \in 1..Len(sig) : sig[i].name = name) - 1
    ELSE (CHOOSE i \in 1..Len(arr_names) : arr_names[i] = name) - 1

\* lines 222-224: the position of a name in the runtime arguments followed
\* by the buffers (counted from 0); a leaf name wins over a buffer name
array_to_int(sig, arr_names, name) ==
    IF \E i \in 1..Len(sig) : sig[i].name = name
    THEN (CHOOSE i \in 1..Len(sig) : sig[i].name = name) - 1
    ELSE (CHOOSE i \in 1..Len(arr_names) : arr_names[i] = name) - 1 + Len(sig)

\* lines 229-230
ResolveKernels(ks, sig, arr_names) ==
    [k \in 1..Len(ks) |->
        [ks[k] EXCEPT !.argnames_indices =
            [j \in 1..Len(ks[k].argnames) |->
                array_to_int(sig, arr_names, ks[k].argnames[j])]]]

\* lines 226-227
MakeCasts(sig) ==
    [i \in 1..Len(sig) |->
        [is_array |-> sig[i].value.is_array, dtype |-> sig[i].value.dtype]]

\* (mutant) every computation is taken for an outermost one
OutermostAlways(pfx) == TRUE

\* line 210: the prefix tells a nested computation from an outermost one
Outermost(pfx) == pfx = ""

\* (mutant) a prepared computation is prepared again
PreparableAgain(st) == st # STATE_NOT_INITIALIZED

\* lines 199-202
Preparable(st) == st # STATE_NOT_INITIALIZED /\ st # STATE_PREPARED

PrepareFor(args, kwds) ==
    LET out(err, at, values, b) ==
            Outcome("prepare_for", err, at, Len(args), kwds, args, values, b, <<>>)
    IN
    IF ~Preparable(state)
    THEN /\ last' = Outcome("prepare_for", "InvalidStateError", "state",
                            Len(args), kwds, <<>>, NoValues, NoBasis, <<>>)
         /\ UNCHANGED <<state, debug, prefix, contract, reduce_vars, nested_counter, nested, tr_tree,
                        basis, operations, kernels, arrays_list, leaf_sig, casts>>
    ELSE
    \E r \in {_basis_for(tr_tree, args, kwds)} :
    IF r.err # "ok"
    THEN /\ tr_tree' = r.tree
         /\ last' = out(r.err, r.at, r.values, NoBasis)
         /\ UNCHANGED <<state, debug, prefix, contract, reduce_vars, nested_counter, nested, basis,
                        operations, kernels, arrays_list, leaf_sig, casts>>
    ELSE
    \E c \in {_construct_operations(prefix, r.basis)} :
    IF c.err # "ok"
    THEN /\ tr_tree' = r.tree
         /\ basis' = r.basis
         /\ last' = out(c.err, "construct", r.values, r.basis)
         /\ NestedByConstruction
         /\ UNCHANGED <<state, debug, prefix, contract, reduce_vars,
                        operations, kernels, arrays_list, leaf_sig, casts>>
    ELSE IF ~Outermost(prefix)
    THEN /\ tr_tree' = r.tree
         /\ basis' = r.basis
         /\ operations' = c.ops
         /\ state' = STATE_PREPARED
         /\ last' = out("ok", "", r.values, r.basis)
         /\ NestedByConstruction
         /\ UNCHANGED <<debug, prefix, contract, reduce_vars, kernels,
                        arrays_list, leaf_sig, casts>>
    ELSE
    \* line 211: finalize allocates on the device, which may refuse
    \/ /\ tr_tree' = r.tree
       /\ basis' = r.basis
       /\ operations' = Present([c.ops.v EXCEPT !.finalize_calls = @ + 1])
       /\ last' = out("DeviceError", "finalize", r.values, r.basis)
       /\ NestedByConstruction
       /\ UNCHANGED <<state, debug, prefix, contract, reduce_vars, kernels,
                      arrays_list, leaf_sig, casts>>
    \/ \E fin \in {finalize(c.ops.v, r.tree)}, sig \in {tree_leaf_signature(r.tree)} :
       LET arr_names == [i \in 1..Len(fin.allocations) |-> fin.allocations[i].name]
       IN  /\ tr_tree' = r.tree
           /\ basis' = r.basis
           /\ operations' = Present(fin)
           /\ kernels' = Present(ResolveKernels(fin.kernels, sig, arr_names))
           /\ arrays_list' = Present(fin.allocations)
           /\ leaf_sig' = Present(sig)
           /\ casts' = Present(MakeCasts(sig))
           /\ state' = STATE_PREPARED
           /\ last' = out("ok", "", r.values, r.basis)
           /\ NestedByConstruction
           /\ UNCHANGED <<debug, prefix, contract, reduce_vars>>

(***************************************************************************)
(* __call__ (lines 253-279).                                               *)
(***************************************************************************)
ApplyCast(c, arg) == IF c.is_array THEN arg ELSE cast(c.dtype, arg)

RECURSIVE LaunchKernelsReversed(_, _)
\* (mutant) the launches are issued last kernel first
LaunchKernelsReversed(ks, pos_args) ==
    IF ks = <<>> THEN <<>>
    ELSE LaunchKernelsReversed(Tail(ks), pos_args)
         \o <<[kernel |-> Head(ks).name,
                op_args |-> [j \in 1..Len(Head(ks).argnames_indices) |->
                                pos_args[Head(ks).argnames_indices[j] + 1]]]>>

RECURSIVE LaunchKernels(_, _)
\* lines 277-279: the launches issued, in the order they are issued
LaunchKernels(ks, pos_args) ==
    IF ks = <<>> THEN <<>>
    ELSE <<[kernel |-> Head(ks).name,
            op_args |-> [j \in 1..Len(Head(ks).argnames_indices) |->
                            pos_args[Head(ks).argnames_indices[j] + 1]]]>>
         \o LaunchKernels(Tail(ks), pos_args)

\* line 276: zip stops at the shorter of the casts and the arguments
PosArgs(args) ==
    LET n == IF Len(args) < Len(casts.v) THEN Len(args) ELSE Len(casts.v)
    IN  [i \in 1..n |-> ApplyCast(casts.v[i], args[i])] \o arrays_list.v

\* (mutant) the kernels are launched before the argument count is checked
BindLaunchFirst(args) ==
    IF ~leaf_sig.set THEN [err |-> "AttributeError", at |-> "binding", launched |-> <<>>]
    ELSE IF Len(args) < Len(leaf_sig.v)
    THEN [err |-> "TypeError", at |-> "count", launched |-> <<>>]
    ELSE [err |-> IF Len(args) = Len(leaf_sig.v) THEN "ok" ELSE "TypeError",
          at |-> IF Len(args) = Len(leaf_sig.v) THEN "" ELSE "count",
          launched |-> LaunchKernels(kernels.v, PosArgs(args))]

\* lines 271-279: the checks after the mode-dependent ones, and the launches
Bind(args) ==
    IF ~leaf_sig.set THEN [err |-> "AttributeError", at |-> "binding", launched |-> <<>>]
    ELSE IF ~CountMatches(args, leaf_sig.v)
    THEN [err |-> "TypeError", at |-> "count", launched |-> <<>>]
    ELSE [err |-> "ok", at |-> "",
          launched |-> LaunchKernels(kernels.v, PosArgs(args))]

\* (mutant) only the uninitialized state is refused
CallableOnceInitialized(st) == st # STATE_NOT_INITIALIZED

\* line 260
Callable(st) == st = STATE_PREPARED

Call(args, kwds) ==
    LET out(err, at, values, b, launched) ==
            Outcome("__call__", err, at, Len(args), kwds, args, values, b, launched)
    IN
    /\ IF ~Callable(state)
       THEN /\ last' = Outcome("__call__", "InvalidStateError", "state",
                               Len(args), kwds, <<>>, NoValues, NoBasis, <<>>)
            /\ UNCHANGED tr_tree
       ELSE IF debug
       THEN \E r \in {_basis_for(tr_tree, args, kwds)} :
            /\ tr_tree' = r.tree
            /\ IF r.err # "ok"
               THEN last' = out(r.err, r.at, r.values, NoBasis, <<>>)
               ELSE IF _basis_needs_update(basis, r.basis)
               THEN last' = out("ValueError", "basis_check", r.values, r.basis, <<>>)
               ELSE \E b \in {Bind(args)} :
                        last' = out(b.err, b.at, r.values, r.basis, b.launched)
       ELSE /\ UNCHANGED tr_tree
            /\ IF kwds # {}
               THEN last' = out("ValueError", "kwds", NoValues, NoBasis, <<>>)
               ELSE \E b \in {Bind(args)} :
                        last' = out(b.err, b.at, NoValues, NoBasis, b.launched)
    /\ UNCHANGED <<state, debug, prefix, contract, reduce_vars, nested_counter, nested, basis,
                   operations, kernels, arrays_list, leaf_sig, casts>>

(***************************************************************************)
(* The inputs the operations are tried with.                               *)
(***************************************************************************)
\* the argument of the right kind, size and type at a leaf
RefArg(pair) ==
    IF pair.value.is_array THEN ArrayArg(RefSize, RefDType) ELSE ScalarArg(RefDType)

\* what a caller may pass instead: the other kind, another size or type
Deviations(pair) ==
    IF pair.value.is_array
    THEN {ScalarArg(RefDType)} \cup {ArrayArg(n, RefDType) : n \in Sizes \ {RefSize}}
    ELSE {ArrayArg(RefSize, RefDType), ScalarArg(AltDType)}

\* the positions whose argument is varied: the first leaf, whose Value the
\* basis takes its size and type from, and the first scalar leaf
VariedPositions(sig) ==
    LET sc == {i \in 1..Len(sig) : ~sig[i].value.is_array}
    IN  (IF Len(sig) > 0 THEN {1} ELSE {})
        \cup (IF sc = {} THEN {} ELSE {CHOOSE i \in sc : \A j \in sc : i <= j})

\* the reference arguments; those with one varied position changed; None at
\* every position and at the first alone; one argument too few, one too many
ArgVectors(tree) ==
    LET sig == tree_leaf_signature(tree)
        L == Len(sig)
        ref == [i \in 1..L |-> RefArg(sig[i])]
    IN  {ref, [i \in 1..L |-> NoneArg], Append(ref, ScalarArg(RefDType))}
        \cup (IF L > 0 THEN {[ref EXCEPT ![1] = NoneArg]} ELSE {})
        \cup UNION {{[ref EXCEPT ![i] = d] : d \in Deviations(sig[i])} :
                    i \in VariedPositions(sig)}
        \cup (IF L > 0 THEN {SubSeq(ref, 1, L - 1)} ELSE {})

KwdsPool == {{}, {"fixed_coeff"}}

\* connection requests: a new array name, with or without a new scalar name,
\* at an input, at a scalar and at a name that does not exist
ConnectTargets(pfx) == {pfx \o "A", pfx \o "coeff", "blah"}

NewArrayNames == {<<"A_prime">>}

NewScalarNames == {<<>>, <<"param">>}

Next ==
    \/ SetArgnames
    \/ \E cls \in NestedClasses : GetNestedComputation(cls)
    \/ \E tr \in Transformations, t \in ConnectTargets(prefix),
          na \in NewArrayNames, ns \in NewScalarNames : Connect(tr, t, na, ns)
    \/ \E args \in ArgVectors(tr_tree), kwds \in KwdsPool : PrepareFor(args, kwds)
    \/ \E args \in ArgVectors(tr_tree), kwds \in KwdsPool : Call(args, kwds)

Spec == Init /\ [][Next]_vars

(***************************************************************************)
(* Basis negotiation over the classes whose argument-Value function        *)
(* decides the scalar's type: connections and preparations of an           *)
(* initialized computation of each class.                                  *)
(***************************************************************************)
NegotiationContracts == {"Dummy", "FixedCoeff", "Promoting"}

InitNegotiation ==
    /\ debug = FALSE
    /\ prefix \in Prefixes
    /\ contract \in NegotiationContracts
    /\ nested_counter = 1
    /\ nested = <<>>
    /\ state = STATE_INITIALIZED
    /\ tr_tree = _finish_init(prefix, _get_argnames)
    /\ basis = NoBasis
    /\ operations = Absent
    /\ kernels = Absent
    /\ arrays_list = Absent
    /\ leaf_sig = Absent
    /\ casts = Absent
    /\ last = Plain("init", "ok", "")
    /\ NoPlanBuilt

NextNegotiation ==
    \/ \E tr \in Transformations, t \in ConnectTargets(prefix),
          na \in NewArrayNames, ns \in NewScalarNames : Connect(tr, t, na, ns)
    \/ \E args \in ArgVectors(tr_tree), kwds \in KwdsPool : PrepareFor(args, kwds)

SpecNegotiation == InitNegotiation /\ [][NextNegotiation]_vars

(***************************************************************************)
(* Nested computations: a DummyNested, which asks for a nested Dummy at    *)
(* each plan construction, and a caller asking for nested computations of  *)
(* several classes.                                                        *)
(***************************************************************************)
\* nested computations are handed out up to this many times
MaxNestedCalls == 3

\* Dummy and DummyNested of the tests, Reduce and CBRNG of the library
AllNestedClasses == {"Dummy", "DummyNested", "Reduce", "CBRNG"}

InitNested ==
    /\ debug = FALSE
    /\ prefix \in Prefixes
    /\ contract = "DummyNested"
    /\ nested_counter = 1
    /\ nested = <<>>
    /\ state = STATE_INITIALIZED
    /\ tr_tree = _finish_init(prefix, _get_argnames)
    /\ basis = NoBasis
    /\ operations = Absent
    /\ kernels = Absent
    /\ arrays_list = Absent
    /\ leaf_sig = Absent
    /\ casts = Absent
    /\ last = Plain("init", "ok", "")
    /\ NoPlanBuilt

NextNested ==
    \/ \E cls \in AllNestedClasses :
          nested_counter <= MaxNestedCalls /\ get_nested_computation(cls)
    \/ \E args \in ArgVectors(tr_tree), kwds \in KwdsPool :
          nested_counter <= MaxNestedCalls /\ PrepareFor(args, kwds)

SpecNested == InitNested /\ [][NextNested]_vars

(***************************************************************************)
(* The transformation tree under the connections of the tests, made in any *)
(* order to an initialized Dummy: those of test_signature_correctness and  *)
(* test_connection_to_base, the refused ones of test_incorrect_connections,*)
(* and connections whose new name is a parameter the tree already has.     *)
(***************************************************************************)
Request(tr, target, arrays, scalars) ==
    [tr |-> tr, target |-> target, arrays |-> arrays, scalars |-> scalars]

\* test_core.py lines 218-223, 352 and 355
AcceptedRequests ==
    {Request(tr_trivial, "A", <<"A_prime">>, <<>>),
     Request(tr_2_to_1, "B", <<"A_prime", "B_prime">>, <<"B_param">>),
     Request(tr_trivial, "B_prime", <<"B_new_prime">>, <<>>),
     Request(tr_1_to_2, "C", <<"C_half1", "C_half2">>, <<>>),
     Request(tr_trivial, "C_half1", <<"C_new_half1">>, <<>>),
     Request(tr_scale, "D", <<"D_prime">>, <<"D_param">>),
     Request(tr_trivial, "A", <<"B">>, <<>>),
     Request(tr_scale, "C", <<"C_prime">>, <<"coeff">>)}

\* test_core.py lines 169-195 and 209, and an input fused to an output
RefusedRequests ==
    {Request(tr_trivial, "coeff", <<"A_prime">>, <<>>),
     Request(tr_trivial, "blah", <<"A_prime">>, <<>>),
     Request(tr_trivial, "B", <<"coeff">>, <<>>),
     Request(tr_scale, "C", <<"C_prime">>, <<"A_prime">>),
     Request(tr_scale, "C", <<"1C_prime">>, <<"param">>),
     Request(tr_scale, "C", <<"C_prime">>, <<"1param">>),
     Request(tr_trivial, "C", <<"D">>, <<>>),
     Request(tr_trivial, "C", <<"D_prime">>, <<>>),
     Request(tr_1_to_2, "A", <<"A_prime">>, <<>>),
     Request(tr_2_to_1, "C", <<"C_prime">>, <<>>),
     Request(tr_trivial, "A", <<"A_prime", "B_prime">>, <<>>),
     Request(tr_trivial, "C", <<"C_prime", "D_prime">>, <<>>),
     Request(tr_trivial, "A", <<"A_prime">>, <<"param">>),
     Request(tr_trivial, "A", <<"C">>, <<>>)}

\* a new name that is an input the tree has, the target itself included,
\* and a new scalar name that a transformation brought
AliasRequests ==
    {Request(tr_trivial, "B", <<"A">>, <<>>),
     Request(tr_trivial, "A", <<"A">>, <<>>),
     Request(tr_scale, "A", <<"A_prime">>, <<"D_param">>)}

ConnectRequests == AcceptedRequests \cup RefusedRequests \cup AliasRequests

InitTree ==
    /\ debug = FALSE
    /\ prefix = ""
    /\ contract = "Dummy"
    /\ nested_counter = 1
    /\ nested = <<>>
    /\ state = STATE_INITIALIZED
    /\ tr_tree = _finish_init(prefix, _get_argnames)
    /\ basis = NoBasis
    /\ operations = Absent
    /\ kernels = Absent
    /\ arrays_list = Absent
    /\ leaf_sig = Absent
    /\ casts = Absent
    /\ last = Plain("init", "ok", "")
    /\ NoPlanBuilt

NextTree ==
    \E q \in ConnectRequests : Connect(q.tr, q.target, q.arrays, q.scalars)

SpecTree == InitTree /\ [][NextTree]_vars

(***************************************************************************)
(* Plans of Reduce: every part size and maximal work group size up to the  *)
(* bounds, the whole array reduced or its last axis, with and without a    *)
(* transposition.                                                          *)
(***************************************************************************)
\* the largest number of elements reduced
MaxPartSize == 66

\* the largest maximal work group size of a device
MaxWorkGroupSize == 8

\* the length of the axis that remains when one does
RemainingLength == 2

ReduceInputs ==
    {[transpose |-> tp, outer_dims |-> od,
      final_size |-> IF od = 0 THEN 1 ELSE RemainingLength,
      part |-> p, max_work_group_size |-> m] :
        tp \in BOOLEAN, od \in {0, 1}, p \in 1..MaxPartSize,
        m \in 2..MaxWorkGroupSize}

InitReduce ==
    /\ debug = FALSE
    /\ prefix = ""
    /\ contract = "Dummy"
    /\ nested_counter = 1
    /\ nested = <<>>
    /\ state = STATE_NOT_INITIALIZED
    /\ tr_tree = NoTree
    /\ basis = NoBasis
    /\ operations = Absent
    /\ kernels = Absent
    /\ arrays_list = Absent
    /\ leaf_sig = Absent
    /\ casts = Absent
    /\ last = Plain("init", "ok", "")
    /\ reduce \in {r \in ReduceInputs : r.transpose => r.outer_dims > 0}
    /\ build_pc = "enter"
    /\ part_size = 0
    /\ cur_input = ""
    /\ input_slices = <<0, 0>>
    /\ plan = <<>>

NextReduce == BuildPlanEnter \/ BuildPlanStage \/ BuildPlanReturn

SpecReduce == InitReduce /\ [][NextReduce]_vars

\* the build is a sequential function: a step that can be taken is taken
FairSpecReduce == SpecReduce /\ WF_vars(NextReduce)

(***************************************************************************)
(* Claims.                                                                 *)
(***************************************************************************)
SigLen == Len(LeafNames(tr_tree))

ISE == "InvalidStateError"

C2_CallNeedsPrepared ==
    last.op = "__call__" /\ state # STATE_PREPARED
        => last.err = ISE /\ last.launched = <<>>

C2_Witness ==
    last.op = "__call__" /\ state = STATE_INITIALIZED /\ last.nargs = SigLen

\* C3 as stated: a prepare_for that follows a prepare_for fails with
\* InvalidStateError, whatever the arguments of either call.
C3_SecondPrepareFails ==
    [][last.op = "prepare_for" /\ last'.op = "prepare_for"
          => last'.err = ISE]_vars

\* C3 amended: a prepare_for that follows a prepare_for which succeeded
\* fails with InvalidStateError, whatever its arguments, and changes nothing.
C3_PrepareAfterSuccessFails ==
    [][last.op = "prepare_for" /\ last.err = "ok" /\ last'.op = "prepare_for"
          => /\ last'.err = ISE
             /\ UNCHANGED <<state, tr_tree, basis, operations, kernels>>]_vars

C3_Witness ==
    last.op = "prepare_for" /\ last.err = ISE /\ state = STATE_PREPARED

C5_ArgnamesSetOnce ==
    [][last'.op = "_set_argnames"
          => IF state = STATE_NOT_INITIALIZED
             THEN last'.err = "ok" /\ state' = STATE_INITIALIZED
             ELSE last'.err = ISE /\ state' = state /\ tr_tree' = tr_tree]_vars

C5_Witness ==
    /\ last.op = "_set_argnames" /\ last.err = ISE
    /\ \E n \in DOMAIN tr_tree.nodes : tr_tree.nodes[n].connected

\* C6: a call that fails (wrong state, wrong argument count, keywords in
\* non-debug mode, basis mismatch in debug mode, or anything else) has
\* launched no kernel.
C6_NoLaunchOnFailure ==
    last.op = "__call__" /\ last.err # "ok" => last.launched = <<>>

C6_Witness ==
    /\ last.op = "__call__" /\ last.err = "TypeError" /\ last.at = "count"
    /\ kernels.set /\ last.nargs > SigLen

\* C7: a successful call launches the kernels of the finalized plan, each
\* once, in the plan's order.
C7_PlanOrder ==
    last.op = "__call__" /\ last.err = "ok"
        => /\ operations.set /\ operations.v.finalized
           /\ Len(last.launched) = Len(operations.v.kernels)
           /\ \A i \in 1..Len(last.launched) :
                 last.launched[i].kernel = operations.v.kernels[i].name

C7_Witness ==
    last.op = "__call__" /\ last.err = "ok" /\ Len(last.launched) >= 2

WrongCount == last.op \in {"prepare_for", "__call__"} /\ last.nargs # SigLen

LifecycleOk ==
    \/ last.op = "prepare_for" /\ state = STATE_INITIALIZED
    \/ last.op = "__call__" /\ state = STATE_PREPARED

\* C8 as stated, read for an outermost computation in the state the
\* operation asks for: a wrong number of positional arguments makes
\* prepare_for and __call__ fail with TypeError.
C8_WrongCountIsTypeError ==
    WrongCount /\ LifecycleOk /\ prefix = "" => last.err = "TypeError"

\* C8 amended: with a wrong number of positional arguments prepare_for and
\* __call__ fail without computing a basis or launching a kernel; the error
\* is the TypeError of the count check exactly when the lifecycle check
\* passes and the operation is prepare_for, a debug call, or a non-debug
\* call without keywords on an outermost computation.
C8_WrongCountFails ==
    WrongCount
        => /\ last.err # "ok"
           /\ last.launched = <<>>
           /\ ~last.new_basis.set
           /\ last.values = NoValues
           /\ (last.err = "TypeError" /\ last.at = "count")
                 <=> /\ LifecycleOk
                     /\ \/ last.op = "prepare_for"
                        \/ debug
                        \/ last.kwds = {} /\ prefix = ""
           /\ last.err \in {"TypeError", ISE, "ValueError", "AttributeError"}
           /\ last.err = "ValueError" => last.op = "__call__" /\ ~debug /\ last.kwds # {}
           /\ last.err = "AttributeError" => last.op = "__call__" /\ ~debug /\ prefix # ""

C8_Witness ==
    WrongCount /\ last.op = "__call__" /\ state = STATE_PREPARED
    /\ last.err = "TypeError" /\ ~debug

\* C9: in a prepare_for that reaches the wrapping of its arguments, a None
\* becomes the unresolved placeholder of the leaf's kind, an argument of the
\* leaf's kind is accepted with its own shape and type, and the call fails
\* with the TypeError of the kind check exactly when some argument that is
\* not None has the other kind.
C9_ArgumentKinds ==
    last.op = "prepare_for" /\ last.err # ISE /\ Len(last.args) = SigLen
        => LET names == LeafNames(tr_tree)
               leaf_is_array(i) == tr_tree.nodes[names[i]].type # "scalar"
               mismatch(i) == /\ last.args[i].kind # "none"
                              /\ (last.args[i].kind = "array") # leaf_is_array(i)
           IN  IF \E i \in 1..SigLen : mismatch(i)
               THEN last.err = "TypeError" /\ last.at = "kind"
               ELSE /\ last.at # "kind"
                    /\ DOMAIN last.values = Range(names)
                    /\ \A i \in 1..SigLen :
                          last.values[names[i]] =
                              [is_array |-> leaf_is_array(i),
                               shape |-> last.args[i].shape,
                               dtype |-> last.args[i].dtype]

C9_Witness ==
    /\ last.op = "prepare_for" /\ last.values # NoValues
    /\ \E i \in 1..Len(last.args) :
          /\ last.args[i].kind = "none"
          /\ ~last.values[LeafNames(tr_tree)[i]].is_array

\* C10: a debug call on a prepared computation whose arguments give a basis
\* fails with ValueError when that basis differs from the prepared one in
\* some key, and otherwise raises nothing and launches the kernels.
C10_DebugBasisCheck ==
    last.op = "__call__" /\ debug /\ state = STATE_PREPARED /\ last.new_basis.set
        => IF \E key \in BasisKeys : basis[key] # last.new_basis[key]
           THEN last.err = "ValueError" /\ last.launched = <<>>
           ELSE last.err = "ok" /\ last.launched # <<>>

\* C11: once a computation is prepared no operation changes its basis, its
\* kernel list with the resolved argument indices, or its buffer list.
C11_PreparedPlanFrozen ==
    [][state = STATE_PREPARED
          => UNCHANGED <<basis, kernels, arrays_list, operations>>]_vars

C11_Witness ==
    /\ state = STATE_PREPARED /\ kernels.set /\ debug
    /\ last.op = "__call__" /\ last.err = "ValueError" /\ last.at = "basis_check"

\* C15: a successful prepare_for starts from the initialized state, ends in
\* the prepared state and has invoked the finalization of the plan it
\* constructed exactly once when the prefix is empty and not at all
\* otherwise; the plan of a computation with a prefix is never finalized.
C15_FinalizeOnce ==
    [][/\ last'.op = "prepare_for" /\ last'.err = "ok"
          => /\ state = STATE_INITIALIZED /\ state' = STATE_PREPARED
             /\ operations'.set
             /\ operations'.v.finalize_calls = (IF prefix = "" THEN 1 ELSE 0)
             /\ operations'.v.finalized = (prefix = "")
       /\ operations'.set /\ prefix # ""
          => operations'.v.finalize_calls = 0 /\ ~operations'.v.finalized
       /\ operations'.set => operations'.v.finalize_calls <= 1]_vars

C15_Witness ==
    /\ last.op = "prepare_for" /\ last.err = "ok" /\ prefix = ""
    /\ state = STATE_PREPARED /\ operations.v.finalize_calls = 1

BufferNamed(name) ==
    arrays_list.v[CHOOSE i \in 1..Len(arrays_list.v) : arrays_list.v[i].name = name]

IsLeafName(name) == \E i \in 1..Len(leaf_sig.v) : leaf_sig.v[i].name = name

LeafPosition(name) == CHOOSE i \in 1..Len(leaf_sig.v) : leaf_sig.v[i].name = name

\* C16: in a prepared outermost computation every argument name of every
\* kernel has an index inside the runtime arguments followed by the buffers;
\* the index of a leaf's name is the leaf's position, that of another name
\* the position of the buffer of that name after the runtime arguments; and
\* a successful call passes for a leaf's name the caller's argument at that
\* position (cast to the leaf's element type when the leaf is a scalar), for
\* another name the buffer.
C16_ArgumentBinding ==
    /\ state = STATE_PREPARED /\ prefix = ""
          => /\ kernels.set /\ leaf_sig.set /\ arrays_list.set
             /\ \A k \in 1..Len(kernels.v) :
                   /\ Len(kernels.v[k].argnames_indices) = Len(kernels.v[k].argnames)
                   /\ \A j \in 1..Len(kernels.v[k].argnames) :
                         LET name == kernels.v[k].argnames[j]
                             idx == kernels.v[k].argnames_indices[j]
                         IN  /\ idx \in 0..(Len(leaf_sig.v) + Len(arrays_list.v) - 1)
                             /\ IF IsLeafName(name)
                                THEN idx + 1 = LeafPosition(name)
                                ELSE /\ idx >= Len(leaf_sig.v)
                                     /\ arrays_list.v[idx - Len(leaf_sig.v) + 1].name = name
    /\ last.op = "__call__" /\ last.err = "ok"
          => \A k \in 1..Len(kernels.v) :
                /\ Len(last.launched[k].op_args) = Len(kernels.v[k].argnames)
                /\ \A j \in 1..Len(kernels.v[k].argnames) :
                      LET name == kernels.v[k].argnames[j]
                          passed == last.launched[k].op_args[j]
                      IN  IF IsLeafName(name)
                          THEN LET i == LeafPosition(name)
                               IN  passed =
                                     IF leaf_sig.v[i].value.is_array THEN last.args[i]
                                     ELSE cast(leaf_sig.v[i].value.dtype, last.args[i])
                          ELSE passed = BufferNamed(name)

C16_Witness ==
    /\ last.op = "__call__" /\ last.err = "ok" /\ prefix = ""
    /\ \E n \in DOMAIN tr_tree.nodes : tr_tree.nodes[n].connected
    /\ \E i \in 1..Len(leaf_sig.v) :
          /\ ~leaf_sig.v[i].value.is_array
          /\ last.args[i].kind = "scalar"
          /\ last.args[i].dtype # leaf_sig.v[i].value.dtype

NoTransformations == \A n \in DOMAIN tr_tree.nodes : ~tr_tree.nodes[n].connected

Declared == Outputs \o Inputs \o Scalars

NamesOf(seq) == [i \in 1..Len(seq) |-> seq[i].name]

\* C17 as stated: with no transformation connected the leaf signature is
\* the declared parameter list, and a prepared computation has the vector of
\* the declared parameters followed by the buffers its plan requested.
C17_RoundTrip ==
    state # STATE_NOT_INITIALIZED /\ NoTransformations
        => /\ LeafNames(tr_tree) = Declared
           /\ state = STATE_PREPARED
                 => /\ leaf_sig.set /\ arrays_list.set
                    /\ NamesOf(leaf_sig.v) \o NamesOf(arrays_list.v)
                          = Declared \o TempNames(prefix)

\* C17 amended: with no transformation connected the leaf signature is the
\* declared parameter list in declared order, each name behind the
\* computation's prefix; a prepared computation with the empty prefix has
\* the vector of the declared parameters followed by the buffers its plan
\* requested, each once; one with a prefix has no vector.
C17_RoundTripOutermost ==
    state # STATE_NOT_INITIALIZED /\ NoTransformations
        => /\ LeafNames(tr_tree) = Prefixed(prefix, Declared)
           /\ NamesOf(tree_leaf_signature(tr_tree)) = Prefixed(prefix, Declared)
           /\ state = STATE_PREPARED /\ prefix = ""
                 => /\ leaf_sig.set /\ arrays_list.set
                    /\ NamesOf(leaf_sig.v) \o NamesOf(arrays_list.v)
                          = Declared \o NamesOf(operations.v.allocations)
                    /\ NamesOf(arrays_list.v) = TempNames(prefix)
                    /\ Cardinality(Range(NamesOf(leaf_sig.v) \o NamesOf(arrays_list.v)))
                          = Len(leaf_sig.v) + Len(arrays_list.v)
           /\ state = STATE_PREPARED /\ prefix # ""
                 => ~leaf_sig.set /\ ~arrays_list.set

C17_Witness ==
    /\ state = STATE_PREPARED /\ NoTransformations /\ prefix = ""
    /\ last.op = "__call__" /\ last.err = "ok"

\* a prepare_for that passes its lifecycle check, and what its negotiation gives
PrepareStep == last'.op = "prepare_for" /\ Preparable(state)

Negotiated == _basis_for(tr_tree, last'.args, last'.kwds)

\* C12: in a negotiation whose first pass gives a basis, the Value used in
\* pass 2 for the leaf of every scalar base parameter is the Value the
\* computation returns for the pass-1 basis, the Value used for every array
\* leaf is the one wrapped from the caller's argument, and the basis
\* returned is the one computed from the propagation of the pass-2 Values.
C12_ScalarsOnlyCorrected ==
    [][PrepareStep =>
          \A r \in {Negotiated} :
          r.basis1.set =>
             /\ \A i \in 1..Len(Scalars) :
                   r.values2[prefix \o Scalars[i]] = _get_argvalues(r.basis1)[Scalars[i]]
             /\ \A n \in DOMAIN r.values :
                   r.values[n].is_array => r.values2[n] = r.values[n]
             /\ r.err = "ok" =>
                   /\ basis' = r.basis
                   /\ r.basis = _get_basis_for(
                          base_values(propagate_to_base(tr_tree, r.values2)),
                          last'.kwds).basis]_vars

\* the scalar Values the computation returns for a basis
ScalarsOf(b) ==
    [n \in Range(Scalars) |-> _get_argvalues(b)[n]]

\* a third pass: the scalar override with the Values of the given basis,
\* the propagation, and the basis function
ThirdPass(r, b, kwds) ==
    _get_basis_for(
        base_values(propagate_to_base(r.tree, ScalarOverride(r.values2, _get_argvalues(b)))),
        kwds)

\* C13 as stated: a third pass with the Values of the pass-2 basis gives the
\* basis of pass 2, whatever the computation's hooks.
C13_ThirdPassSame ==
    [][PrepareStep =>
          \A r \in {Negotiated} :
          r.err = "ok" =>
             \A t \in {ThirdPass(r, r.basis, last'.kwds)} :
                t.err = "ok" /\ t.basis = r.basis]_vars

\* C13 amended: a third pass with the Values of the pass-1 basis gives the
\* basis of pass 2; so does a third pass with the Values of the pass-2
\* basis when the computation returns the same scalar Values for the
\* pass-2 basis as for the pass-1 basis, and when the computation has a
\* prefix.
C13_ThirdPassStable ==
    [][PrepareStep =>
          \A r \in {Negotiated} :
          r.err = "ok" =>
             \A t1 \in {ThirdPass(r, r.basis1, last'.kwds)},
                t2 \in {ThirdPass(r, r.basis, last'.kwds)} :
                /\ t1.err = "ok" /\ t1.basis = r.basis
                /\ ScalarsOf(r.basis) = ScalarsOf(r.basis1) \/ prefix # ""
                      => t2.err = "ok" /\ t2.basis = r.basis]_vars

C13_Witness ==
    /\ last.op = "prepare_for" /\ last.err = "ok"
    /\ contract = "FixedCoeff" /\ prefix = ""
    /\ last.values["coeff"].dtype # basis.coeff_dtype
    /\ \E n \in DOMAIN tr_tree.nodes : tr_tree.nodes[n].connected

\* C14: the nested counter is one more than the number of nested
\* computations handed out so far (it grows by one per call and is never
\* reset), the i-th prefix handed out is the parent's prefix followed by the
\* initial of the nested class, the number i and an underscore, and no two
\* prefixes handed out are equal.
C14_NestedPrefixesDistinct ==
    /\ nested_counter = Len(nested) + 1
    /\ \A i \in 1..Len(nested) :
          \E cls \in AllNestedClasses :
             nested[i] = prefix \o Initial(cls) \o ToString(i) \o "_"
    /\ \A i, j \in 1..Len(nested) : i # j => nested[i] # nested[j]

C14_Witness ==
    /\ Len(nested) >= 3
    /\ nested[1] = NestedPrefix(prefix, "Reduce", 1)
    /\ nested[2] = NestedPrefix(prefix, "Dummy", 2)
    /\ last.op = "prepare_for" /\ last.err = "ok" /\ last.kwds # {}
    /\ operations.v.allocations[1].name = NestedPrefix(prefix, "Dummy", 3) \o "_temp0"

\* a parameter a transformation can be connected to: an array node of the
\* tree that no transformation is connected to yet
IsLeafArray(tree, n) ==
    /\ n \in DOMAIN tree.nodes
    /\ tree.nodes[n].type # "scalar"
    /\ ~tree.nodes[n].connected

\* the connect step of request q
ConnectStep(q) == Connect(q.tr, q.target, q.arrays, q.scalars)

\* C19: a connect whose target is not a current leaf array node of the tree
\* (a name the tree does not have, a parameter that already has a
\* transformation connected, a scalar) raises ValueError and leaves the tree
\* as it was.
C19_TargetMustBeLeafArray ==
    [][\A q \in ConnectRequests :
          (ConnectStep(q) /\ ~IsLeafArray(tr_tree, q.target))
          => (last'.err = "ValueError" /\ tr_tree' = tr_tree)]_vars

\* a connect to a parameter that was fused earlier has just been refused
C19_Witness ==
    /\ last.op = "connect"
    /\ last.err = "ValueError"
    /\ last.at = "not_a_leaf"
    /\ \E q \in ConnectRequests :
          q.target \in DOMAIN tr_tree.nodes /\ tr_tree.nodes[q.target].connected

\* the names of request q that the tree already has
Existing(tree, q) == Range(q.arrays \o q.scalars) \cap DOMAIN tree.nodes

\* request q names identifiers, as many as its transformation takes at a
\* target of this role
WellFormed(tree, q) ==
    /\ \A n \in Range(q.arrays \o q.scalars) : valid_argument_name(n)
    /\ Len(q.scalars) = q.tr.scalars
    /\ IF tree.nodes[q.target].type = "output"
       THEN q.tr.inputs = 1 /\ Len(q.arrays) = q.tr.outputs
       ELSE q.tr.outputs = 1 /\ Len(q.arrays) = q.tr.inputs

\* the parameters that have n among their children
Parents(tree, n) ==
    {m \in DOMAIN tree.nodes :
        tree.nodes[m].connected /\ n \in Range(tree.nodes[m].children)}

\* C20: a connect at a leaf output whose new array name is a node of the
\* tree fails with ValueError; a well-formed connect at a leaf input whose
\* new array names, where the tree has them, are input arrays, and a
\* well-formed connect whose new scalar names, where the tree has them, are
\* scalars, succeeds: the node that was there becomes a child of the target
\* as it is, and the leaf signature lists no name twice.
C20_ExistingNames ==
    [][\A q \in ConnectRequests :
          (ConnectStep(q) /\ IsLeafArray(tr_tree, q.target))
          => /\ (/\ tr_tree.nodes[q.target].type = "output"
                 /\ Range(q.arrays) \cap DOMAIN tr_tree.nodes # {})
                => (last'.err = "ValueError" /\ tr_tree' = tr_tree)
             /\ (/\ WellFormed(tr_tree, q)
                 /\ Existing(tr_tree, q) # {}
                 /\ \A n \in Range(q.arrays) \cap DOMAIN tr_tree.nodes :
                       /\ tr_tree.nodes[q.target].type = "input"
                       /\ tr_tree.nodes[n].type = "input"
                 /\ \A n \in Range(q.scalars) \cap DOMAIN tr_tree.nodes :
                       tr_tree.nodes[n].type = "scalar")
                => /\ last'.err = "ok"
                   /\ DOMAIN tr_tree'.nodes
                        = DOMAIN tr_tree.nodes \cup Range(q.arrays \o q.scalars)
                   /\ \A n \in Existing(tr_tree, q) \ {q.target} :
                         /\ tr_tree'.nodes[n] = tr_tree.nodes[n]
                         /\ q.target \in Parents(tr_tree', n)
                   /\ \A i, j \in 1..Len(LeafNames(tr_tree')) :
                         LeafNames(tr_tree')[i] = LeafNames(tr_tree')[j]
                         => i = j]_vars

\* an input array and a scalar each have two parameters fused to them, and a
\* connect at an output that named a node of the tree has just been refused
C20_Witness ==
    /\ last.op = "connect"
    /\ last.err = "ValueError"
    /\ last.at = "existing_node"
    /\ \E n \in DOMAIN tr_tree.nodes :
          tr_tree.nodes[n].type = "input"
          /\ \E m1, m2 \in Parents(tr_tree, n) : m1 # m2
    /\ \E n \in DOMAIN tr_tree.nodes :
          tr_tree.nodes[n].type = "scalar"
          /\ \E m1, m2 \in Parents(tr_tree, n) : m1 # m2

\* the parameters no transformation is connected to
Leaves(tree) == {n \in DOMAIN tree.nodes : ~tree.nodes[n].connected}

ArraysIn(tree, names) ==
    SelectSeq(names, LAMBDA n : tree.nodes[n].type # "scalar")

RECURSIVE Substitute(_, _, _)
\* seq with each t replaced, where it stands, by the names new
Substitute(seq, t, new) ==
    IF seq = <<>> THEN <<>>
    ELSE (IF Head(seq) = t THEN new ELSE <<Head(seq)>>)
         \o Substitute(Tail(seq), t, new)

RECURSIVE FirstOnly(_, _)
\* seq without the later occurrences of a name
FirstOnly(seq, seen) ==
    IF seq = <<>> THEN <<>>
    ELSE IF Head(seq) \in seen THEN FirstOnly(Tail(seq), seen)
    ELSE <<Head(seq)>> \o FirstOnly(Tail(seq), seen \cup {Head(seq)})

\* the leaf signature names exactly the leaves, each once, arrays first,
\* and among the scalars those of the base first
SignatureWellFormed(tree) ==
    \A L \in {LeafNames(tree)} :
        /\ Range(L) = Leaves(tree)
        /\ \A i, j \in 1..Len(L) : L[i] = L[j] => i = j
        /\ \A i, j \in 1..Len(L) :
              (i < j /\ tree.nodes[L[i]].type = "scalar")
              => tree.nodes[L[j]].type = "scalar"

\* a connect has just succeeded
Connected(q) == ConnectStep(q) /\ Connectable(state) /\ last'.err = "ok"

RECURSIVE Descendants(_, _, _)
\* the parameters reached from the names `frontier` along the edges from a
\* fused parameter to the new names of its transformation
Descendants(nodes, frontier, seen) ==
    IF frontier \subseteq seen THEN seen
    ELSE Descendants(nodes,
             UNION {Range(nodes[n].children) : n \in frontier \ seen},
             seen \cup frontier)

\* no parameter is reached from itself
Acyclic(tree) ==
    \A n \in DOMAIN tree.nodes :
        n \notin Descendants(tree.nodes, Range(tree.nodes[n].children), {})

\* C21: every tree reached by successful connects, those that alias an
\* existing input or scalar included, is acyclic (so that a propagation from
\* the leaves to the base comes to an end).
C21_TreeAcyclic == Acyclic(tr_tree)

\* a prepare_for of an initialized, unprepared computation has just failed
PrepareFailed ==
    /\ Preparable(state)
    /\ last'.op = "prepare_for"
    /\ last'.err # "ok"

\* C22: when prepare_for fails, in finalization or in any step before it,
\* the computation is not prepared and its basis, its plan and the Values of
\* its transformation tree are as they were before the call.
C22_FailedPrepareLeavesNoTrace ==
    [][PrepareFailed
       => /\ state' # STATE_PREPARED
          /\ basis' = basis
          /\ operations' = operations
          /\ tr_tree' = tr_tree]_vars

\* C23: for a computation with any prefix, the entry the scalar override
\* writes before pass 2 is, for each scalar base parameter, the entry under
\* that parameter's name as the tree has it (with the prefix), and the
\* override adds no entry under a name the tree does not have.
C23_OverrideReachesLeaf ==
    [][PrepareStep =>
          \A r \in {Negotiated} :
          r.basis1.set =>
             /\ \A i \in 1..Len(Scalars) :
                   /\ prefix \o Scalars[i] \in DOMAIN r.values2
                   /\ r.values2[prefix \o Scalars[i]]
                        = _get_argvalues(r.basis1)[Scalars[i]]
             /\ DOMAIN r.values2 \subseteq DOMAIN tr_tree.nodes]_vars

\* the errors a call is documented to end in
Documented == {"InvalidStateError", "TypeError", "ValueError"}

\* C24: a prepared computation, nested or outermost, has its kernel list
\* (with resolved argument indices), buffer list, casts and prepared leaf
\* signature, and a call of it launches the kernels of the plan or ends in
\* InvalidStateError, TypeError or ValueError (or in the error its own
\* basis function raised for the arguments).
C24_PreparedIsCallable ==
    state = STATE_PREPARED
    => /\ kernels.set /\ arrays_list.set /\ casts.set /\ leaf_sig.set
       /\ last.op = "__call__"
          => \/ last.err = "ok" /\ last.launched # <<>>
             \/ last.err \in Documented
             \/ last.at = "basis"

\* C25: a call of a prepared computation, with or without debug, successful
\* or not, leaves the leaf signature as it was: the names and the Values
\* (type, shape) that leaf_signature and signature_str report.
C25_CallKeepsSignature ==
    [][(state = STATE_PREPARED /\ last'.op = "__call__")
       => tree_leaf_signature(tr_tree') = tree_leaf_signature(tr_tree)]_vars

\* the reduction stages recorded in the plan
ReduceCalls == SelectSeq(plan, LAMBDA c : c.call = "reduce")

\* C26: for every part size of at least 1 and every maximal work group size
\* of at least 2, each iteration of the loop of _build_plan makes part_size
\* strictly smaller, and the build returns with part_size = 1 after finitely
\* many kernel calls.
C26_BuildPlanTerminates ==
    /\ [][build_pc = "loop" /\ build_pc' = "loop"
            => /\ part_size' < part_size
               /\ part_size' >= 1
               /\ Len(plan') = Len(plan) + 1]_vars
    /\ <>(build_pc = "returned" /\ part_size = 1)

\* a plan of at least three stages has been returned
C26_Witness ==
    /\ build_pc = "returned"
    /\ part_size = 1
    /\ Len(ReduceCalls) >= 3
    /\ reduce.max_work_group_size > 2

\* C27: for every Reduce whose part size is greater than 1, the plan built
\* ends with a kernel call that writes the parameter `output`; every earlier
\* kernel call writes a temporary.
C27_ResultInOutput ==
    (build_pc = "returned" /\ reduce.part > 1)
    => /\ plan # <<>>
       /\ plan[Len(plan)].call = "reduce"
       /\ plan[Len(plan)].output = "output"
       /\ \A i \in 1..(Len(plan) - 1) : plan[i].output # "output"

\* C28: in every stage the blocks cover the part exactly: the last block
\* holds between 1 and block_size elements, the blocks before it are full,
\* no block is larger than the maximal work group size, and the next stage
\* reduces as many elements as this stage has blocks.
C28_BlocksCoverPart ==
    \A i \in 1..Len(ReduceCalls) :
        \A c \in {ReduceCalls[i]} :
            /\ 1 <= c.last_block_size
            /\ c.last_block_size <= c.block_size
            /\ (c.blocks_per_part - 1) * c.block_size + c.last_block_size
                 = c.part_size
            /\ c.block_size <= reduce.max_work_group_size
            /\ i < Len(ReduceCalls)
               => ReduceCalls[i + 1].part_size = c.blocks_per_part

====
